---- MODULE Spec2Model ----
(***************************************************************************)
(* The article, comment, user and session collections of the blogging      *)
(* backend and the request handlers of src/router/articles.ts and of the   *)
(* users router, as a state machine.  Every handler is an async function:  *)
(* each `await` of a store operation is one atomic step of the document    *)
(* store, and steps of different requests interleave freely.  The code a   *)
(* handler runs between two awaits touches only its own locals, so it is   *)
(* folded into the store step that follows it (the arrival of a request    *)
(* with its first store operation, the response with the last one).        *)
(***************************************************************************)
EXTENDS Integers, Sequences, FiniteSets, TLC

\* ------------------------------------------------------------------ bounds

\* Requests that may arrive in a behaviour of Spec (all routes).
MaxReq == 3
\* Requests in a behaviour of SpecTitles (POST, PUT, DELETE /articles).
MaxTitleReq == 3
\* Requests in a behaviour of SpecViews (POST, PUT /articles, GET views).
MaxViewReq == 3
\* Requests in a behaviour of SpecUsers (the users router and the creations).
MaxUserReq == 2
\* Sessions stored before the first request (logins are out of scope).
NumSessions == 3

Largest(S) == CHOOSE n \in S : \A m \in S : m <= n
Req == 1..Largest({MaxReq, MaxTitleReq, MaxViewReq, MaxUserReq})

\* Users registered before the first request; UnknownUser is an id that
\* names no stored user.
StoredUsers == {1, 2}
UnknownUser == Cardinality(StoredUsers) + 1
UserIds == StoredUsers \cup {UnknownUser}

\* Titles a request body may carry, as sequences of characters.
Titles == {<<"A", " ", "b">>, <<"a", "-", "b">>, <<"C">>}

VARIABLES
    users,          \* user id -> [isRemoved]
    sessions,       \* session id -> [userId, isRemoved]
    articles,       \* stored article id -> [title, slug, views, user, comments]
    comments,       \* stored comment id -> [articleId, user]
    nextArticleId,  \* the next fresh article _id
    nextCommentId,  \* the next fresh comment _id
    reqs,           \* request slot -> the request, its position and its response
    disturbed       \* DELETE /users requests in their handler since another
                    \* request's store step

vars == <<users, sessions, articles, comments, nextArticleId, nextCommentId,
          reqs, disturbed>>

store == <<users, sessions, articles, comments>>

\* ------------------------------------------------------------ pure helpers

Put(f, k, v) == [x \in DOMAIN f \cup {k} |-> IF x = k THEN v ELSE f[x]]

Drop(f, S) == [x \in DOMAIN f \ S |-> f[x]]

\* String.prototype.toLowerCase on the characters that occur in Titles.
LowerChar(c) ==
    CASE c = "A" -> "a"
      [] c = "B" -> "b"
      [] c = "C" -> "c"
      [] OTHER -> c

ToLowerCase(s) == [i \in 1..Len(s) |-> LowerChar(s[i])]

\* String.prototype.split(sep) for a one-character separator.
RECURSIVE Split(_, _)
Split(s, sep) ==
    IF \A i \in 1..Len(s) : s[i] # sep
    THEN <<s>>
    ELSE LET i == CHOOSE k \in 1..Len(s) :
                      s[k] = sep /\ \A j \in 1..(k - 1) : s[j] # sep
         IN  <<SubSeq(s, 1, i - 1)>> \o Split(SubSeq(s, i + 1, Len(s)), sep)

\* Array.prototype.join(sep).
RECURSIVE Join(_, _)
Join(parts, sep) ==
    IF Len(parts) = 1
    THEN parts[1]
    ELSE parts[1] \o <<sep>> \o Join(Tail(parts), sep)

\* A slug that keeps the title's case.
PutSlugNoLower(title) == Join(Split(title, " "), "-")

\* articles.ts 83-86: req.body.title.split(' ').join('-').toLowerCase()
PutSlug(title) == ToLowerCase(Join(Split(title, " "), "-"))

\* The slug the Article model gives a created article: the title with spaces
\* replaced by hyphens, lowercased.
SchemaSlug(title) ==
    [i \in 1..Len(title) |-> LowerChar(IF title[i] = " " THEN "-" ELSE title[i])]

Slugs == {SchemaSlug(t) : t \in Titles}

\* ---------------------------------------------------------------- requests

IdleReq ==
    [kind |-> "none", pc |-> "idle", id |-> 0, str |-> <<>>, user |-> 0,
     flag |-> "none", out |-> "none", hit |-> 0, val |-> 0]

Mid(rec) == rec.pc \notin {"idle", "done"}

\* A request arrives in the lowest free slot.
Arrives(r) ==
    /\ reqs[r].pc = "idle"
    /\ IF r = 1 THEN TRUE ELSE reqs[r - 1].pc # "idle"

\* The handler is over; out says how.  "json", "errors" and "dup" are the
\* res.json calls (a document, the validation errors, the duplicate-title
\* error); "next" is next(err); "silent" is a return with nothing sent;
\* "threw" and "unhandled" are rejections of a handler that has no try/catch
\* (a TypeError, a failed store call): nothing is sent and next is not called.
Finish(rec, out) ==
    [rec EXCEPT !.pc = "done", !.out = out, !.id = 0, !.str = <<>>,
                !.user = 0, !.flag = "none"]

\* res.json({errors: [{msg: 'Article with the same title already exists'}]})
Reject(rec) == [rec EXCEPT !.pc = "done", !.out = "dup"]

\* One store step of request r, which leaves the request as rec; it disturbs
\* every DELETE /users request that is in its handler.
Step(r, rec) ==
    /\ reqs' = [reqs EXCEPT ![r] = rec]
    /\ disturbed' = {q \in Req : IF q = r THEN Mid(rec) /\ r \in disturbed
                                          ELSE /\ Mid(reqs[q])
                                               /\ reqs[q].kind = "deleteUser"}

ArticleIdParams == 0..(nextArticleId - 1)
CommentIdParams == 0..(nextCommentId - 1)

Init ==
    /\ users = [u \in StoredUsers |-> [isRemoved |-> FALSE]]
    /\ sessions = [s \in 1..NumSessions |->
                      [userId |-> IF s = 2 THEN 2 ELSE 1, isRemoved |-> FALSE]]
    /\ articles = [a \in {} |-> 0]
    /\ comments = [c \in {} |-> 0]
    /\ nextArticleId = 1
    /\ nextCommentId = 1
    /\ reqs = [r \in Req |-> IdleReq]
    /\ disturbed = {}

\* ------------------------------------------------- router: /articles routes

\* Article.find().sort({created: -1}).skip(n).limit(10): the page's length.
PageLimit == 10

PageLength(skip) ==
    LET left == Cardinality(DOMAIN articles) - skip
    IN  IF left < 0 THEN 0 ELSE IF left > PageLimit THEN PageLimit ELSE left

\* GET /articles?skip=N
GetArticles(r) ==
    /\ Arrives(r)
    /\ \E skip \in 0..1 :
         Step(r, Finish([IdleReq EXCEPT !.kind = "getArticles",
                                        !.val = PageLength(skip)], "json"))
    /\ UNCHANGED <<store, nextArticleId, nextCommentId>>

\* Article.findOne({title}): some stored article with that title, or 0 (null).
FindOneByTitle(title) ==
    LET m == {a \in DOMAIN articles : articles[a].title = title}
    IN  IF m = {} THEN {0} ELSE m

\* Article.findOne({slug}) and the filter of findOneAndUpdate({slug}, ...).
FindOneBySlug(slug) ==
    LET m == {a \in DOMAIN articles : articles[a].slug = slug}
    IN  IF m = {} THEN {0} ELSE m

\* POST /articles: the validation gate and the existence check.
PostArticle(r) ==
    /\ Arrives(r)
    /\ \E title \in Titles, user \in StoredUsers, valid \in BOOLEAN :
         LET rec == [IdleReq EXCEPT !.kind = "postArticle", !.str = title,
                                    !.user = user]
         IN  IF ~valid
             THEN /\ reqs' = [reqs EXCEPT ![r] = Finish(rec, "errors")]
                  /\ disturbed' = disturbed
             ELSE \E found \in FindOneByTitle(title) :
                    IF found # 0
                    THEN Step(r, Reject(rec))
                    ELSE Step(r, [rec EXCEPT !.pc = "pa_create"])
    /\ UNCHANGED <<store, nextArticleId, nextCommentId>>

\* POST /articles: Article.create(req.body).
PostArticleCreate(r) ==
    /\ reqs[r].pc = "pa_create"
    /\ articles' = Put(articles, nextArticleId,
                       [title |-> reqs[r].str, slug |-> SchemaSlug(reqs[r].str),
                        views |-> 0, user |-> reqs[r].user, comments |-> <<>>])
    /\ nextArticleId' = nextArticleId + 1
    /\ Step(r, [reqs[r] EXCEPT !.pc = "pa_findById", !.hit = nextArticleId])
    /\ UNCHANGED <<users, sessions, comments, nextCommentId>>

\* POST /articles: Article.findById(newArticle._id), then the response.
PostArticleFindById(r) ==
    /\ reqs[r].pc = "pa_findById"
    /\ Step(r, Finish(reqs[r], "json"))
    /\ UNCHANGED <<store, nextArticleId, nextCommentId>>

\* GET /articles/:slug
GetArticle(r) ==
    /\ Arrives(r)
    /\ \E slug \in Slugs : \E found \in FindOneBySlug(slug) :
         Step(r, Finish([IdleReq EXCEPT !.kind = "getArticle", !.hit = found],
                        "json"))
    /\ UNCHANGED <<store, nextArticleId, nextCommentId>>

\* PUT /articles/:articleId: the validation gate and the existence check,
\* which lets the article being updated through.
PutArticle(r) ==
    /\ Arrives(r)
    /\ \E id \in ArticleIdParams, title \in Titles, valid \in BOOLEAN :
         LET rec == [IdleReq EXCEPT !.kind = "putArticle", !.id = id,
                                    !.str = title]
         IN  IF ~valid
             THEN /\ reqs' = [reqs EXCEPT ![r] = Finish(rec, "errors")]
                  /\ disturbed' = disturbed
             ELSE \E found \in FindOneByTitle(title) :
                    IF found # 0 /\ found # id
                    THEN Step(r, Reject(rec))
                    ELSE Step(r, [rec EXCEPT !.pc = "pu_update"])
    /\ UNCHANGED <<store, nextArticleId, nextCommentId>>

\* findByIdAndUpdate(id, {$set: {...req.body, slug}}): one atomic write of
\* the title and of the slug derived from it.
SetTitleAndSlug(id, title) ==
    [articles EXCEPT ![id].title = title, ![id].slug = PutSlug(title)]

\* PUT /articles/:articleId: the update, then the response.
PutArticleUpdate(r) ==
    /\ reqs[r].pc = "pu_update"
    /\ IF reqs[r].id \in DOMAIN articles
       THEN /\ articles' = SetTitleAndSlug(reqs[r].id, reqs[r].str)
            /\ Step(r, Finish([reqs[r] EXCEPT !.hit = reqs[r].id], "json"))
       ELSE /\ articles' = articles
            /\ Step(r, Finish(reqs[r], "json"))
    /\ UNCHANGED <<users, sessions, comments, nextArticleId, nextCommentId>>

\* DELETE /articles/:articleId: findByIdAndRemove; when it finds nothing the
\* handler returns without sending anything.
DeleteArticle(r) ==
    /\ Arrives(r)
    /\ \E id \in ArticleIdParams :
         LET rec == [IdleReq EXCEPT !.kind = "deleteArticle", !.id = id]
         IN  IF id \in DOMAIN articles
             THEN /\ articles' = Drop(articles, {id})
                  /\ Step(r, [rec EXCEPT !.pc = "da_comments", !.hit = id])
             ELSE /\ articles' = articles
                  /\ Step(r, Finish(rec, "silent"))
    /\ UNCHANGED <<users, sessions, comments, nextArticleId, nextCommentId>>

\* DELETE /articles/:articleId: Comment.deleteMany({articleId}), the response.
DeleteArticleComments(r) ==
    /\ reqs[r].pc = "da_comments"
    /\ comments' = Drop(comments,
                        {c \in DOMAIN comments : comments[c].articleId = reqs[r].hit})
    /\ Step(r, Finish(reqs[r], "json"))
    /\ UNCHANGED <<users, sessions, articles, nextArticleId, nextCommentId>>

\* An update that loses the increment.
IncViewsLost(a) == articles

\* {$inc: {views: 1}} on the article the filter found.
IncViews(a) == [articles EXCEPT ![a].views = @ + 1]

\* GET /articles/views/:slug: findOneAndUpdate with {new: true} is one store
\* step; the response carries the document as it is after the update.
GetViews(r) ==
    /\ Arrives(r)
    /\ \E slug \in Slugs : \E found \in FindOneBySlug(slug) :
         LET rec == [IdleReq EXCEPT !.kind = "getViews", !.hit = found]
         IN  IF found = 0
             THEN /\ articles' = articles
                  /\ Step(r, Finish(rec, "json"))
             ELSE /\ articles' = IncViews(found)
                  /\ Step(r, Finish([rec EXCEPT !.val = articles'[found].views],
                                    "json"))
    /\ UNCHANGED <<users, sessions, comments, nextArticleId, nextCommentId>>

\* POST /articles/comments: the validation gate and Comment.create(req.body).
PostComment(r) ==
    /\ Arrives(r)
    /\ \E id \in ArticleIdParams, user \in StoredUsers, valid \in BOOLEAN :
         LET rec == [IdleReq EXCEPT !.kind = "postComment", !.id = id,
                                    !.user = user]
         IN  IF ~valid
             THEN /\ reqs' = [reqs EXCEPT ![r] = Finish(rec, "errors")]
                  /\ disturbed' = disturbed
                  /\ UNCHANGED <<comments, nextCommentId>>
             ELSE /\ comments' = Put(comments, nextCommentId,
                                     [articleId |-> id, user |-> user])
                  /\ nextCommentId' = nextCommentId + 1
                  /\ Step(r, [rec EXCEPT !.pc = "pc_push", !.hit = nextCommentId])
    /\ UNCHANGED <<users, sessions, articles, nextArticleId>>

\* POST /articles/comments: Article.updateOne({_id}, {$push: {comments}}).
PostCommentPush(r) ==
    /\ reqs[r].pc = "pc_push"
    /\ articles' = IF reqs[r].id \in DOMAIN articles
                   THEN [articles EXCEPT ![reqs[r].id].comments =
                                             Append(@, reqs[r].hit)]
                   ELSE articles
    /\ Step(r, [reqs[r] EXCEPT !.pc = "pc_populate"])
    /\ UNCHANGED <<users, sessions, comments, nextArticleId, nextCommentId>>

\* POST /articles/comments: populate('user'), then the response.
PostCommentPopulate(r) ==
    /\ reqs[r].pc = "pc_populate"
    /\ Step(r, Finish(reqs[r], "json"))
    /\ UNCHANGED <<store, nextArticleId, nextCommentId>>

\* DELETE /articles/comments/:commentId: Comment.findByIdAndRemove only.
DeleteComment(r) ==
    /\ Arrives(r)
    /\ \E id \in CommentIdParams :
         /\ comments' = Drop(comments, {id})
         /\ Step(r, Finish([IdleReq EXCEPT !.kind = "deleteComment", !.id = id,
                              !.hit = IF id \in DOMAIN comments THEN id ELSE 0],
                           "json"))
    /\ UNCHANGED <<users, sessions, articles, nextArticleId, nextCommentId>>

\* ---------------------------------------------------- router: /users routes

\* GET /users/:userId
GetUser(r) ==
    /\ Arrives(r)
    /\ \E id \in UserIds :
         Step(r, Finish([IdleReq EXCEPT !.kind = "getUser", !.id = id,
                              !.hit = IF id \in DOMAIN users THEN id ELSE 0],
                        "json"))
    /\ UNCHANGED <<store, nextArticleId, nextCommentId>>

\* PUT /users/:userId: findOneAndUpdate({_id}, {$set: req.body}); of the
\* user's fields the body may set, isRemoved is the one the model keeps.
PutUser(r) ==
    /\ Arrives(r)
    /\ \E id \in UserIds, flag \in {"none", "true", "false"}, valid \in BOOLEAN :
         LET rec == [IdleReq EXCEPT !.kind = "putUser", !.id = id]
         IN  IF ~valid
             THEN /\ reqs' = [reqs EXCEPT ![r] = Finish(rec, "errors")]
                  /\ disturbed' = disturbed
                  /\ users' = users
             ELSE /\ users' = IF id \in DOMAIN users /\ flag # "none"
                              THEN [users EXCEPT ![id].isRemoved = (flag = "true")]
                              ELSE users
                  /\ Step(r, Finish([rec EXCEPT !.hit = IF id \in DOMAIN users
                                                         THEN id ELSE 0], "json"))
    /\ UNCHANGED <<sessions, articles, comments, nextArticleId, nextCommentId>>

\* DELETE /users/:userId: findOneAndUpdate({_id}, {$set: {isRemoved: true}}).
DeleteUser(r) ==
    /\ Arrives(r)
    /\ \E id \in UserIds :
         LET rec == [IdleReq EXCEPT !.kind = "deleteUser", !.id = id,
                                    !.pc = "du_sessions"]
         IN  IF id \in DOMAIN users
             THEN /\ users' = [users EXCEPT ![id].isRemoved = TRUE]
                  /\ Step(r, [rec EXCEPT !.hit = id])
             ELSE /\ users' = users
                  /\ Step(r, rec)
    /\ UNCHANGED <<sessions, articles, comments, nextArticleId, nextCommentId>>

\* UserSession.update({userId, isRemoved: false}, {$set: {isRemoved: true}})
\* without {multi: true}: the store updates one matching document, whichever
\* it meets first; the possible results.
MarkSessions(userId) ==
    LET m == {s \in DOMAIN sessions :
                 sessions[s].userId = userId /\ ~sessions[s].isRemoved}
    IN  IF m = {} THEN {sessions}
        ELSE {[sessions EXCEPT ![s].isRemoved = TRUE] : s \in m}

\* DELETE /users/:userId: the sessions update; then `user._id` is read, which
\* throws when the user was not found, and nothing catches it.
DeleteUserSessions(r) ==
    /\ reqs[r].pc = "du_sessions"
    /\ sessions' \in MarkSessions(reqs[r].id)
    /\ IF reqs[r].hit = 0
       THEN Step(r, Finish(reqs[r], "threw"))
       ELSE Step(r, [reqs[r] EXCEPT !.pc = "du_articles"])
    /\ UNCHANGED <<users, articles, comments, nextArticleId, nextCommentId>>

\* A remove whose filter matches no article.
RemoveArticlesOfNone(u) == articles

\* Article.remove({user}): every article of that author.
RemoveArticlesOf(u) == Drop(articles, {a \in DOMAIN articles : articles[a].user = u})

\* DELETE /users/:userId: Article.remove({user: user._id}).
DeleteUserArticles(r) ==
    /\ reqs[r].pc = "du_articles"
    /\ articles' = RemoveArticlesOf(reqs[r].hit)
    /\ Step(r, [reqs[r] EXCEPT !.pc = "du_comments"])
    /\ UNCHANGED <<users, sessions, comments, nextArticleId, nextCommentId>>

\* DELETE /users/:userId: Comment.remove({user: user._id}), the response.
DeleteUserComments(r) ==
    /\ reqs[r].pc = "du_comments"
    /\ comments' = Drop(comments,
                        {c \in DOMAIN comments : comments[c].user = reqs[r].hit})
    /\ Step(r, Finish(reqs[r], "json"))
    /\ UNCHANGED <<users, sessions, articles, nextArticleId, nextCommentId>>

\* ------------------------------------------------------------ store failure

ArticleKinds == {"getArticles", "postArticle", "getArticle", "putArticle",
                 "deleteArticle", "getViews", "postComment", "deleteComment"}
UserKinds == {"getUser", "putUser", "deleteUser"}

\* What becomes of a handler whose awaited store call rejects: the articles
\* router catches and calls next(err); the users router has no try/catch.
FailureOutcome(kind) == IF kind \in UserKinds THEN "unhandled" ELSE "next"

\* The store operation a request waits for fails; the store is unchanged.
StoreFails(r) ==
    /\ \/ /\ Mid(reqs[r])
          /\ reqs' = [reqs EXCEPT ![r] = Finish(reqs[r], FailureOutcome(reqs[r].kind))]
       \/ /\ Arrives(r)
          /\ \E kind \in ArticleKinds \cup UserKinds :
               reqs' = [reqs EXCEPT ![r] = Finish([IdleReq EXCEPT !.kind = kind],
                                                  FailureOutcome(kind))]
    /\ disturbed' = disturbed \ {r}
    /\ UNCHANGED <<store, nextArticleId, nextCommentId>>

\* ------------------------------------------------------------ specifications

Handle(r) ==
    \/ GetArticles(r)
    \/ PostArticle(r)
    \/ PostArticleCreate(r)
    \/ PostArticleFindById(r)
    \/ GetArticle(r)
    \/ PutArticle(r)
    \/ PutArticleUpdate(r)
    \/ DeleteArticle(r)
    \/ DeleteArticleComments(r)
    \/ GetViews(r)
    \/ PostComment(r)
    \/ PostCommentPush(r)
    \/ PostCommentPopulate(r)
    \/ DeleteComment(r)
    \/ GetUser(r)
    \/ PutUser(r)
    \/ DeleteUser(r)
    \/ DeleteUserSessions(r)
    \/ DeleteUserArticles(r)
    \/ DeleteUserComments(r)
    \/ StoreFails(r)

Next == \E r \in 1..MaxReq : Handle(r)

Spec == Init /\ [][Next]_vars

\* Only POST, PUT and DELETE /articles/:articleId arrive, and every store
\* call succeeds.
NextTitles ==
    \E r \in 1..MaxTitleReq :
        \/ PostArticle(r)
        \/ PostArticleCreate(r)
        \/ PostArticleFindById(r)
        \/ PutArticle(r)
        \/ PutArticleUpdate(r)
        \/ DeleteArticle(r)
        \/ DeleteArticleComments(r)

SpecTitles == Init /\ [][NextTitles]_vars

\* Only POST /articles, PUT /articles/:articleId and GET /articles/views/:slug
\* arrive, and every store call succeeds.
NextViews ==
    \E r \in 1..MaxViewReq :
        \/ PostArticle(r)
        \/ PostArticleCreate(r)
        \/ PostArticleFindById(r)
        \/ PutArticle(r)
        \/ PutArticleUpdate(r)
        \/ GetViews(r)

SpecViews == Init /\ [][NextViews]_vars

\* The users router, and the creations of articles and comments; every store
\* call succeeds.
NextUsers ==
    \E r \in 1..MaxUserReq :
        \/ PostArticle(r)
        \/ PostArticleCreate(r)
        \/ PostArticleFindById(r)
        \/ PostComment(r)
        \/ PostCommentPush(r)
        \/ PostCommentPopulate(r)
        \/ GetUser(r)
        \/ PutUser(r)
        \/ DeleteUser(r)
        \/ DeleteUserSessions(r)
        \/ DeleteUserArticles(r)
        \/ DeleteUserComments(r)

\* The store after POST /articles by user 1 and two POST /articles/comments
\* on that article, by user 2 and by user 1, have all responded.
InitUsers ==
    /\ users = [u \in StoredUsers |-> [isRemoved |-> FALSE]]
    /\ sessions = [s \in 1..NumSessions |->
                      [userId |-> IF s = 2 THEN 2 ELSE 1, isRemoved |-> FALSE]]
    /\ articles = Put([a \in {} |-> 0], 1,
                      [title |-> <<"A", " ", "b">>,
                       slug |-> SchemaSlug(<<"A", " ", "b">>),
                       views |-> 0, user |-> 1, comments |-> <<1, 2>>])
    /\ comments = Put(Put([c \in {} |-> 0], 1, [articleId |-> 1, user |-> 2]),
                      2, [articleId |-> 1, user |-> 1])
    /\ nextArticleId = 2
    /\ nextCommentId = 3
    /\ reqs = [r \in Req |-> IdleReq]
    /\ disturbed = {}

SpecUsers == InitUsers /\ [][NextUsers]_vars

\* ------------------------------------------------------------------ claims

\* No request is in its handler.
Quiescent == \A r \in Req : ~Mid(reqs[r])

Done(r, kind) == reqs[r].pc = "done" /\ reqs[r].kind = kind

\* C1: in every reachable state, under any interleaving of POST /articles and
\* PUT /articles/:articleId, no two stored articles have the same title.
C1_TitlesUnique ==
    \A a, b \in DOMAIN articles :
        a # b => articles[a].title # articles[b].title

\* C2: once DELETE /users/:userId for an existing user has responded, every
\* session of that user has isRemoved = TRUE, however many it had.
C2_AllSessionsRemoved ==
    \A r \in Req :
        Done(r, "deleteUser") /\ reqs[r].out = "json" =>
            \A s \in DOMAIN sessions :
                sessions[s].userId = reqs[r].hit => sessions[s].isRemoved

\* The user record is stored and marked removed, and nothing stored names the
\* user as its author.
UserGone(u) ==
    /\ u \in DOMAIN users
    /\ users[u].isRemoved
    /\ \A a \in DOMAIN articles : articles[a].user # u
    /\ \A c \in DOMAIN comments : comments[c].user # u

\* The step with which DELETE /users/:userId sends its response.
DeleteUserResponds(r) ==
    /\ reqs[r].pc = "du_comments"
    /\ reqs'[r].pc = "done"
    /\ reqs'[r].out = "json"

\* C3 as stated: when DELETE /users/:userId for an existing user responds,
\* the user record is stored with isRemoved = TRUE and no stored article and
\* no stored comment has that user as its user reference.
C3_UserGoneAtResponse ==
    [][\A r \in Req : DeleteUserResponds(r) => UserGone(reqs[r].hit)']_vars

\* C3 as amended: the same, for a DELETE /users/:userId between whose first
\* store step and response no other request's store step ran.
C3_UserGoneWhenUndisturbed ==
    [][\A r \in Req :
          DeleteUserResponds(r) /\ r \notin disturbed => UserGone(reqs[r].hit)']_vars

\* C3 witness: a DELETE /users/1 that ran undisturbed so far has removed
\* user 1's article and is about to remove user 1's comment and respond.
C3_Witness ==
    \E r \in Req :
        /\ reqs[r].pc = "du_comments"
        /\ reqs[r].hit = 1
        /\ r \notin disturbed
        /\ users[1].isRemoved
        /\ 1 \notin DOMAIN articles
        /\ \E c \in DOMAIN comments : comments[c].user = 1

\* The title with every space replaced by a hyphen.
ReplaceSpaces(title) ==
    [i \in 1..Len(title) |-> IF title[i] = " " THEN "-" ELSE title[i]]

\* C4: the slug of every stored article is its title with every space
\* replaced by a hyphen and then lowercased, in every reachable state, also
\* when PUTs on the same article interleave.
C4_SlugFollowsTitle ==
    \A a \in DOMAIN articles :
        articles[a].slug = ToLowerCase(ReplaceSpaces(articles[a].title))

\* C4 witness: a PUT has retitled an article to "A b" while an earlier PUT on
\* the same article, with another title, is between its existence check and
\* its update.
C4_Witness ==
    \E r1, r2 \in Req :
        /\ r2 < r1
        /\ Done(r1, "putArticle")
        /\ reqs[r1].hit \in DOMAIN articles
        /\ articles[reqs[r1].hit].title = <<"A", " ", "b">>
        /\ reqs[r2].pc = "pu_update"
        /\ reqs[r2].id = reqs[r1].hit
        /\ reqs[r2].str = <<"C">>

\* C5: once DELETE /articles/:articleId for an existing article has
\* responded, in every later state the article is not stored and no stored
\* comment has it as its article reference.
C5_ArticleAndCommentsGone ==
    \A r \in Req :
        Done(r, "deleteArticle") /\ reqs[r].out = "json" =>
            /\ reqs[r].hit \notin DOMAIN articles
            /\ \A c \in DOMAIN comments : comments[c].articleId # reqs[r].hit

\* The step in which a request arrives and its existence check runs.
Checks(r, kind) ==
    /\ reqs[r].pc = "idle"
    /\ reqs'[r].kind = kind
    /\ reqs'[r].out \notin {"errors", "next"}

\* C6: a POST whose title is that of a stored article, and a PUT whose title
\* is that of a different stored article, get the duplicate-title error and
\* leave the store unchanged; a PUT whose title is the target's own current
\* title is accepted, and its update is applied.
C6_DuplicateTitlesRejected ==
    [][\A r \in Req :
          /\ Checks(r, "postArticle") /\ reqs'[r].out # "dup" =>
                \A a \in DOMAIN articles : articles[a].title # reqs'[r].str
          /\ Checks(r, "putArticle") /\ reqs'[r].out # "dup" =>
                \A a \in DOMAIN articles \ {reqs'[r].id} :
                    articles[a].title # reqs'[r].str
          /\ Checks(r, "putArticle") /\ reqs'[r].out = "dup" =>
                ~(/\ reqs'[r].id \in DOMAIN articles
                  /\ articles[reqs'[r].id].title = reqs'[r].str)
          /\ reqs[r].pc = "idle" /\ reqs'[r].out = "dup" => store' = store
          /\ reqs[r].pc = "pu_update" /\ reqs'[r].out = "json"
                /\ reqs[r].id \in DOMAIN articles =>
                articles'[reqs[r].id].title = reqs[r].str]_vars

\* No store call of a finished request has failed.
StoreWorked == \A r \in Req : reqs[r].out \notin {"next", "unhandled"}

\* How often comment c occurs in the comment sequence of article a.
Occurrences(a, c) ==
    Cardinality({i \in 1..Len(articles[a].comments) : articles[a].comments[i] = c})

\* C7: when no request is in its handler (and no store call has failed),
\* every stored comment names a stored article, occurs exactly once in that
\* article's comment sequence and in no other article's.
C7_CommentInExactlyOneArticle ==
    Quiescent /\ StoreWorked =>
        \A c \in DOMAIN comments :
            /\ comments[c].articleId \in DOMAIN articles
            /\ \A a \in DOMAIN articles :
                   Occurrences(a, c) = IF a = comments[c].articleId THEN 1 ELSE 0

\* C8: when no request is in its handler (and no store call has failed),
\* every id in a stored article's comment sequence is that of a stored
\* comment.
C8_CommentSequencePruned ==
    Quiescent /\ StoreWorked =>
        \A a \in DOMAIN articles :
            \A i \in 1..Len(articles[a].comments) :
                articles[a].comments[i] \in DOMAIN comments

\* The GET /articles/views/:slug requests that found article a.
ViewsOf(a) == {r \in Req : Done(r, "getViews") /\ reqs[r].hit = a}

\* C9: the view counter of every stored article is the number of
\* GET /articles/views requests that found it, each response carries a value
\* the counter has had after an increment, and no two responses for the same
\* article carry the same value.
C9_ViewsCounted ==
    /\ \A a \in DOMAIN articles :
           /\ articles[a].views = Cardinality(ViewsOf(a))
           /\ \A r \in ViewsOf(a) : reqs[r].val \in 1..articles[a].views
    /\ \A r1, r2 \in Req :
           /\ r1 # r2
           /\ Done(r1, "getViews") /\ Done(r2, "getViews")
           /\ reqs[r1].hit # 0 /\ reqs[r1].hit = reqs[r2].hit
           => reqs[r1].val # reqs[r2].val

\* C9 witness: two views of the same article have been answered, with the
\* values 1 and 2, and its counter is 2.
C9_Witness ==
    \E r1, r2 \in Req :
        /\ Done(r1, "getViews") /\ Done(r2, "getViews")
        /\ reqs[r1].hit \in DOMAIN articles
        /\ reqs[r2].hit = reqs[r1].hit
        /\ reqs[r1].val = 1 /\ reqs[r2].val = 2
        /\ articles[reqs[r1].hit].views = 2

\* C10: every request whose store calls all succeed ends with a JSON
\* response (a handler that is over has sent one), DELETE
\* /articles/:articleId and DELETE /users/:userId for an id that is not
\* stored included.
C10_EveryRequestAnswered ==
    \A r \in Req :
        reqs[r].pc = "done" /\ reqs[r].out \notin {"next", "unhandled"} =>
            reqs[r].out \in {"json", "errors", "dup"}

====
